---- MODULE Spec2Model ----
(***************************************************************************)
(* Room occupancy dashboard (src/script.js): the refresh session around    *)
(* loadRoomData, the latest-per-room grouping of fetchLatestRoomCounts and *)
(* the card rendering of createRoomCard.                                   *)
(*                                                                         *)
(* Five specifications share the variables:                                *)
(*   Spec        the page: initializeApp, clicks, timer, fetch completion  *)
(*   SpecReduce  the grouping loop applied to bounded row sequences        *)
(*   SpecWindow  the query and the grouping applied to a store of rows     *)
(*   SpecCycle   one refresh cycle applied to bounded responses            *)
(*   SpecCard    createRoomCard applied to bounded room records            *)
(* Instants are integers in milliseconds.                                  *)
(***************************************************************************)
EXTENDS Integers, Sequences, FiniteSets, TLC

VARIABLES
    \* ---- script.js globals
    CONFIG,            \* [SUPABASE_URL, SUPABASE_ANON_KEY]
    supabaseClient,    \* "null" or "client"
    isLoading,
    refreshInterval,   \* "null" or "interval"
    \* ---- environment of the page
    localStorage,      \* [SUPABASE_URL, SUPABASE_ANON_KEY], "" when absent
    sdkLoaded,         \* window.supabase.createClient exists
    appState,          \* position of initializeApp
    clickListeners,    \* number of click listeners on refreshBtn
    pendingFetches,    \* supabase requests dispatched and not yet settled
    fetchCalls,        \* supabase requests dispatched so far
    loadCalls,         \* invocations of loadRoomData so far
    now,               \* wall clock, ms
    settledAs,         \* what the last settled request carried
    uncaughtFaults,    \* exceptions that left loadRoomData
    recentClickLoads,  \* loadRoomData invocations by clicks in the last DEBOUNCE_MS
    \* ---- DOM
    roomGrid,          \* sequence of cards
    refreshBtnDisabled,
    statusText,
    lastUpdateText,    \* "" or the instant shown
    loadingHidden,
    errorHidden,
    errorText,
    emptyHidden,
    \* ---- SpecReduce, SpecWindow
    store,             \* rows of the table room_stats, in insertion order
    data,              \* rows handed to the grouping loop
    rooms,             \* what fetchLatestRoomCounts returns for data
    reducePc,
    \* ---- SpecCard
    room,              \* the record handed to createRoomCard
    cardNow,           \* value of new Date() inside formatTimestamp
    card,
    cardPc

pageVars == <<CONFIG, supabaseClient, isLoading, refreshInterval, localStorage,
              sdkLoaded, appState, clickListeners, pendingFetches, fetchCalls,
              loadCalls, now, roomGrid, refreshBtnDisabled, statusText,
              lastUpdateText, loadingHidden, errorHidden, errorText, emptyHidden,
              settledAs, uncaughtFaults, recentClickLoads>>
reduceVars == <<store, data, rooms, reducePc>>
cardVars == <<room, cardNow, card, cardPc>>
vars == <<pageVars, reduceVars, cardVars>>

----------------------------------------------------------------------------
\* Bounds

MaxRows == 3        \* longest row sequence handed to the grouping loop
MaxTime == 1        \* row timestamps are 0..MaxTime
MaxCount == 8       \* people_count of records in SpecCard is 0..MaxCount

\* The README's debounce of the refresh button, ms.
DEBOUNCE_MS == 500

----------------------------------------------------------------------------
\* Room ids and JavaScript property keys

\* Room ids the store may hold.  The README's database convention lists
\* digit-only ids ("401") beside free-form ones; room_id is free text.
RoomIds == {"105", "401", "Lobby", "constructor"}

\* Keys that are canonical array indices, with their numeric value.
IsArrayIndex(k) == k \in {"105", "401"}
IndexValue(k) == CASE k = "105" -> 105 [] k = "401" -> 401 [] OTHER -> 0

\* Properties every object literal inherits from Object.prototype.
ObjectPrototypeKeys ==
    {"constructor", "toString", "toLocaleString", "valueOf", "hasOwnProperty",
     "isPrototypeOf", "propertyIsEnumerable", "__proto__",
     "__defineGetter__", "__defineSetter__", "__lookupGetter__",
     "__lookupSetter__"}

\* The grouping never reads people_count; two values tell rows of one room
\* and one timestamp apart.
RowCounts == {0, 3}

Rows == [room_id : RoomIds, timestamp : 0..MaxTime, people_count : RowCounts]

\* The sequences over S of length at most n.
SeqsUpTo(S, n) == UNION {[1..k -> S] : k \in 0..n}

\* ORDER BY timestamp DESC
IsSortedDesc(s) == \A i \in 1..(Len(s) - 1) : s[i].timestamp >= s[i + 1].timestamp

----------------------------------------------------------------------------
\* fetchLatestRoomCounts: the grouping loop and Object.values

\* roomMap is modelled by its own properties in creation order:
\* a sequence of [key, value].
HasOwn(roomMap, k) == \E i \in 1..Len(roomMap) : roomMap[i].key = k

\* !roomMap[record.room_id]: an own property holds a row object (truthy); a
\* missing own property falls through to Object.prototype.
SlotEmptyAlways(roomMap, k) == TRUE
SlotEmpty(roomMap, k) == ~HasOwn(roomMap, k) /\ k \notin ObjectPrototypeKeys

\* roomMap[k] = v: an existing own property keeps its place, a new one is
\* created last.
SetProp(roomMap, k, v) ==
    IF HasOwn(roomMap, k)
    THEN [i \in 1..Len(roomMap) |->
             IF roomMap[i].key = k THEN [key |-> k, value |-> v] ELSE roomMap[i]]
    ELSE Append(roomMap, [key |-> k, value |-> v])

\* The body of the loop, lines 155-157.
GroupStep(roomMap, record) ==
    IF SlotEmpty(roomMap, record.room_id)
    THEN SetProp(roomMap, record.room_id, record)
    ELSE roomMap

\* The loop over rows[lo..hi] in order, first half then second half, so that
\* a response of FETCH_LIMIT rows is evaluated at a depth of its logarithm.
RECURSIVE GroupRange(_, _, _, _)
GroupRange(rows, lo, hi, roomMap) ==
    IF lo > hi THEN roomMap
    ELSE IF lo = hi THEN GroupStep(roomMap, rows[lo])
    ELSE LET mid == (lo + hi) \div 2
             firstHalf == GroupRange(rows, lo, mid, roomMap)
         IN  IF Len(firstHalf) >= 0
             THEN GroupRange(rows, mid + 1, hi, firstHalf)
             ELSE firstHalf

\* for (const record of data), from row i on.
GroupLoop(rows, i, roomMap) == GroupRange(rows, i, Len(rows), roomMap)

RECURSIVE SortByIndex(_)
SortByIndex(props) ==
    IF props = <<>> THEN <<>>
    ELSE LET m == CHOOSE i \in 1..Len(props) :
                    \A j \in 1..Len(props) : IndexValue(props[i].key) <= IndexValue(props[j].key)
         IN  <<props[m]>> \o SortByIndex(SubSeq(props, 1, m - 1) \o SubSeq(props, m + 1, Len(props)))

IsIndexProp(p) == IsArrayIndex(p.key)
IsNamedProp(p) == ~IsArrayIndex(p.key)

ValuesOf(props) == [i \in 1..Len(props) |-> props[i].value]

\* Object.values: array-index keys in ascending numeric order, then the other
\* string keys in creation order.
ObjectValues(roomMap) ==
    ValuesOf(SortByIndex(SelectSeq(roomMap, IsIndexProp)) \o SelectSeq(roomMap, IsNamedProp))

\* Lines 152-160 applied to the rows of a response.
LatestPerRoomUngrouped(rows) == rows
LatestPerRoom(rows) == ObjectValues(GroupLoop(rows, 1, <<>>))

\* .limit(500)
FETCH_LIMIT == 500

Newer(a, b) == a.timestamp > b.timestamp

\* .order('timestamp', { ascending: false })
OrderDesc(table) == SortSeq(table, Newer)

LimitNone(rows, n) == rows
Limit(rows, n) == SubSeq(rows, 1, IF Len(rows) < n THEN Len(rows) ELSE n)

\* Lines 142-146: the rows the request returns from a table.
Query(table) == Limit(OrderDesc(table), FETCH_LIMIT)

----------------------------------------------------------------------------
\* createRoomCard and its helpers

LOW_BOUND == 5

getOccupancyStatusStrict(count) ==
    IF count = 0 THEN [status |-> "empty", color |-> "#0369a1"]
    ELSE IF count < LOW_BOUND THEN [status |-> "moderate", color |-> "#92400e"]
    ELSE [status |-> "full", color |-> "#991b1b"]
getOccupancyStatusInverted(count) ==
    IF count = 0 THEN [status |-> "empty", color |-> "#0369a1"]
    ELSE IF count <= LOW_BOUND THEN [status |-> "full", color |-> "#991b1b"]
    ELSE [status |-> "moderate", color |-> "#92400e"]
getOccupancyStatus(count) ==
    IF count = 0 THEN [status |-> "empty", color |-> "#0369a1"]
    ELSE IF count <= LOW_BOUND THEN [status |-> "moderate", color |-> "#92400e"]
    ELSE [status |-> "full", color |-> "#991b1b"]

TwoDigit(n) == IF n < 10 THEN "0" \o ToString(n) ELSE ToString(n)

\* date.toLocaleTimeString with 2-digit hour, minute and second (24-hour
\* clock, instants counted from a midnight).
LocaleTime(date) ==
    LET secs == (date \div 1000) % 86400
    IN  TwoDigit(secs \div 3600) \o ":" \o TwoDigit((secs % 3600) \div 60)
            \o ":" \o TwoDigit(secs % 60)

\* The time value of new Date(isoString) for a string that is no date: NaN,
\* coded as an integer no instant of the model takes.
NaN == -2147483647

formatTimestampHourInclusive(date, nowMs) ==
    LET diffMs   == nowMs - date
        diffMins == diffMs \div 60000
        diffSecs == diffMs \div 1000
    IN  IF date = NaN THEN "Invalid Date"
        ELSE IF diffMins < 1 THEN ToString(diffSecs) \o "s ago"
        ELSE IF diffMins <= 60 THEN ToString(diffMins) \o "m ago"
        ELSE LocaleTime(date)

\* With NaN every comparison of lines 275-277 is false and the else branch
\* formats the invalid date; nothing throws, so the catch of line 286 is
\* never entered.
formatTimestamp(date, nowMs) ==
    LET diffMs   == nowMs - date
        diffMins == diffMs \div 60000
        diffSecs == diffMs \div 1000
    IN  IF date = NaN THEN "Invalid Date"
        ELSE IF diffMins < 1 THEN ToString(diffSecs) \o "s ago"
        ELSE IF diffMins < 60 THEN ToString(diffMins) \o "m ago"
        ELSE LocaleTime(date)

\* div.textContent = text; div.innerHTML
escapeHtml(text) == IF text = "R&D" THEN "R&amp;D" ELSE text

\* status.charAt(0).toUpperCase() + status.slice(1)
Capitalize(status) ==
    CASE status = "empty" -> "Empty"
      [] status = "moderate" -> "Moderate"
      [] status = "full" -> "Full"
      [] OTHER -> status

\* room.people_count is undefined on a record without that property.
HasPeopleCount(r) == "people_count" \in DOMAIN r

\* getOccupancyStatus(undefined): undefined === 0 and undefined <= 5 are both
\* false, the else branch answers.
OccupancyOf(r) ==
    IF HasPeopleCount(r) THEN getOccupancyStatus(r.people_count)
    ELSE [status |-> "full", color |-> "#991b1b"]

\* ${room.people_count} ${room.people_count === 1 ? 'person' : 'people'}
OccupancyText(r) ==
    IF HasPeopleCount(r)
    THEN ToString(r.people_count) \o " "
            \o (IF r.people_count = 1 THEN "person" ELSE "people")
    ELSE "undefined people"

createRoomCard(r, nowMs) ==
    LET occ == OccupancyOf(r)
    IN  [className |-> "room-card",
         name      |-> escapeHtml(r.room_id),
         color     |-> occ.color,
         occupancy |-> OccupancyText(r),
         status    |-> occ.status,
         badge     |-> Capitalize(occ.status),
         timestamp |-> "Last updated: " \o formatTimestamp(r.timestamp, nowMs)]

\* roomGrid.innerHTML = ''; one appended card per room, in order
renderRoomCards(rs, nowMs) == [i \in 1..Len(rs) |-> createRoomCard(rs[i], nowMs)]


----------------------------------------------------------------------------
\* The page: bounds and inputs

MaxPageRows == 2    \* longest response the page receives
MaxLoadCalls == 3   \* invocations of loadRoomData in one run
MaxTicks == 1       \* clock advances in one run

REFRESH_INTERVAL == 30000

PageRoomIds == {"105", "Lobby"}
\* Rows of the page's occupied rooms, at the oldest and the newest instant.
PageRows ==
    {r \in Rows : r.room_id \in PageRoomIds /\ r.timestamp \in {0, MaxTime} /\ r.people_count > 0}

\* What the query can return as data: at most MaxPageRows rows, newest first.
Responses == {s \in SeqsUpTo(PageRows, MaxPageRows) : IsSortedDesc(s)}

\* How a request fails: { error } returned by the backend (line 148), a
\* rejected request, a payload whose data is null (line 154).
FailureKinds == {"errorObject", "rejected", "nullData"}

FailureMessage(kind) ==
    CASE kind = "errorObject" -> "Could not find the table 'public.room_stats'"
      [] kind = "rejected" -> "Failed to fetch"
      [] OTHER -> "data is not iterable"

\* Messages a failed request carries.
FailureMessages == {FailureMessage(kind) : kind \in FailureKinds}

UrlInputs == {"", "https://abc.supabase.co", "http://abc.supabase.co", "https://example.com"}
KeyInputs == {"", "anon-key"}

StartsWithHttps(url) == url \in {"https://abc.supabase.co", "https://example.com"}
IncludesSupabaseCoUnchecked(url) == TRUE
IncludesSupabaseCo(url) == url \in {"https://abc.supabase.co", "http://abc.supabase.co"}

----------------------------------------------------------------------------
\* loadRoomData

\* if (isLoading) return;
AlreadyLoadingNever == FALSE
AlreadyLoadingUntilTimeout == isLoading /\ now < REFRESH_INTERVAL
AlreadyLoading == isLoading

\* isLoading as the finally block leaves it, after either outcome
LoadingAfterSuccessOnly(outcome) == outcome = "failure"
LoadingAfter(outcome) == FALSE

\* The separator U+2022 of the status line (line 190), in ASCII.
Bullet == "*"

\* The variables loadRoomData can write.
loadVars == <<isLoading, pendingFetches, fetchCalls, roomGrid, refreshBtnDisabled,
              statusText, lastUpdateText, loadingHidden, errorHidden, errorText,
              emptyHidden>>

LoadFailedStampsTime(message) ==
    /\ statusText' = "Failed to load data"
    /\ errorText' = "Failed to load room data: " \o message
    /\ errorHidden' = FALSE
    /\ emptyHidden' = FALSE
    /\ roomGrid' = <<>>
    /\ isLoading' = LoadingAfter("failure")
    /\ refreshBtnDisabled' = FALSE
    /\ loadingHidden' = TRUE
    /\ lastUpdateText' = "Last updated: " \o LocaleTime(now)

\* Lines 194-198, then 199-203.
LoadFailed(message) ==
    /\ statusText' = "Failed to load data"
    /\ errorText' = "Failed to load room data: " \o message
    /\ errorHidden' = FALSE
    /\ emptyHidden' = FALSE
    /\ roomGrid' = <<>>
    /\ isLoading' = LoadingAfter("failure")
    /\ refreshBtnDisabled' = FALSE
    /\ loadingHidden' = TRUE
    /\ UNCHANGED lastUpdateText

\* catch (error) of line 194 takes whatever the try block throws.
CaughtBackendErrorOnly(kind) == kind = "errorObject"
Caught(kind) == TRUE

\* An exception the catch does not take: the finally block alone.
LoadEscapes ==
    /\ isLoading' = LoadingAfter("failure")
    /\ refreshBtnDisabled' = FALSE
    /\ loadingHidden' = TRUE
    /\ UNCHANGED <<statusText, errorText, errorHidden, emptyHidden, roomGrid,
                   lastUpdateText>>

LoadSucceededCountOnly(rs) ==
    /\ IF Len(rs) = 0
       THEN /\ emptyHidden' = FALSE
            /\ roomGrid' = <<>>
            /\ statusText' = "Connected" \o " " \o Bullet \o " " \o ToString(Len(rs)) \o " room(s)"
       ELSE /\ emptyHidden' = TRUE
            /\ roomGrid' = renderRoomCards(rs, now)
            /\ statusText' = "Connected" \o " " \o Bullet \o " " \o ToString(Len(rs)) \o " room(s)"
    /\ lastUpdateText' = "Last updated: " \o LocaleTime(now)
    /\ isLoading' = LoadingAfter("success")
    /\ refreshBtnDisabled' = FALSE
    /\ loadingHidden' = TRUE
    /\ UNCHANGED <<errorText, errorHidden>>

LoadSucceededAppends(rs) ==
    /\ IF Len(rs) = 0
       THEN /\ emptyHidden' = FALSE
            /\ roomGrid' = <<>>
            /\ statusText' = "No rooms with data"
       ELSE /\ emptyHidden' = TRUE
            /\ roomGrid' = roomGrid \o renderRoomCards(rs, now)
            /\ statusText' = "Connected" \o " " \o Bullet \o " " \o ToString(Len(rs)) \o " room(s)"
    /\ lastUpdateText' = "Last updated: " \o LocaleTime(now)
    /\ isLoading' = LoadingAfter("success")
    /\ refreshBtnDisabled' = FALSE
    /\ loadingHidden' = TRUE
    /\ UNCHANGED <<errorText, errorHidden>>

\* Lines 184-193, then 199-203.
LoadSucceeded(rs) ==
    /\ IF Len(rs) = 0
       THEN /\ emptyHidden' = FALSE
            /\ roomGrid' = <<>>
            /\ statusText' = "No rooms with data"
       ELSE /\ emptyHidden' = TRUE
            /\ roomGrid' = renderRoomCards(rs, now)
            /\ statusText' = "Connected" \o " " \o Bullet \o " " \o ToString(Len(rs)) \o " room(s)"
    /\ lastUpdateText' = "Last updated: " \o LocaleTime(now)
    /\ isLoading' = LoadingAfter("success")
    /\ refreshBtnDisabled' = FALSE
    /\ loadingHidden' = TRUE
    /\ UNCHANGED <<errorText, errorHidden>>

LoadRoomDataCallKeepsError(client) ==
    /\ loadCalls' = loadCalls + 1
    /\ IF AlreadyLoading
       THEN UNCHANGED loadVars
       ELSE IF client = "null"
       THEN LoadFailed("Supabase client not initialized")
               /\ UNCHANGED <<pendingFetches, fetchCalls>>
       ELSE /\ isLoading' = TRUE
            /\ refreshBtnDisabled' = TRUE
            /\ loadingHidden' = FALSE
            /\ pendingFetches' = pendingFetches + 1
            /\ fetchCalls' = fetchCalls + 1
            /\ UNCHANGED <<roomGrid, statusText, lastUpdateText, errorText, emptyHidden,
                           errorHidden>>

\* A call of loadRoomData up to its await, with the client the caller sees.
\* Without a client fetchLatestRoomCounts throws before any request and the
\* call runs through catch and finally at once.
LoadRoomDataCall(client) ==
    /\ loadCalls' = loadCalls + 1
    /\ IF AlreadyLoading
       THEN UNCHANGED loadVars
       ELSE IF client = "null"
       THEN LoadFailed("Supabase client not initialized")
               /\ UNCHANGED <<pendingFetches, fetchCalls>>
       ELSE /\ isLoading' = TRUE
            /\ refreshBtnDisabled' = TRUE
            /\ loadingHidden' = FALSE
            /\ errorHidden' = TRUE
            /\ pendingFetches' = pendingFetches + 1
            /\ fetchCalls' = fetchCalls + 1
            /\ UNCHANGED <<roomGrid, statusText, lastUpdateText, errorText, emptyHidden>>

----------------------------------------------------------------------------
\* initializeApp

\* Lines 47-54: client, listener, initial load up to its await; or the catch
\* of lines 60-64 when the SDK is missing.
InitializeAppBody ==
    IF sdkLoaded
    THEN /\ supabaseClient' = "client"
         /\ clickListeners' = clickListeners + 1
         /\ appState' = "initialLoad"
         /\ LoadRoomDataCall("client")
    ELSE /\ appState' = "initFailed"
         /\ statusText' = "Initialization failed"
         /\ errorText' = "Failed to initialize: Supabase SDK not loaded"
         /\ errorHidden' = FALSE
         /\ UNCHANGED <<supabaseClient, clickListeners, loadCalls, isLoading,
                        pendingFetches, fetchCalls, roomGrid, refreshBtnDisabled,
                        lastUpdateText, loadingHidden, emptyHidden>>

\* showError and return of promptForCredentials (lines 101-116)
PromptRejected(message) ==
    /\ appState' = "needCredentials"
    /\ errorText' = message
    /\ errorHidden' = FALSE
    /\ UNCHANGED <<CONFIG, localStorage, supabaseClient, clickListeners, loadCalls,
                   isLoading, pendingFetches, fetchCalls, roomGrid,
                   refreshBtnDisabled, statusText, lastUpdateText, loadingHidden,
                   emptyHidden>>

\* DOMContentLoaded: initializeApp, with promptForCredentials and its retry
\* when credentials are missing.  url and key are what the user types.
InitializeApp ==
    /\ appState = "start"
    /\ UNCHANGED <<refreshInterval, sdkLoaded, now, settledAs, uncaughtFaults,
                   recentClickLoads, reduceVars, cardVars>>
    /\ IF CONFIG.SUPABASE_URL = "" \/ CONFIG.SUPABASE_ANON_KEY = ""
       THEN IF localStorage.SUPABASE_URL = "" \/ localStorage.SUPABASE_ANON_KEY = ""
            THEN \E url \in UrlInputs, key \in KeyInputs :
                    IF url = "" THEN PromptRejected("Supabase URL is required")
                    ELSE IF key = "" THEN PromptRejected("Supabase Anon Key is required")
                    ELSE IF ~StartsWithHttps(url) \/ ~IncludesSupabaseCo(url)
                    THEN PromptRejected("Invalid Supabase URL format")
                    ELSE /\ localStorage' = [SUPABASE_URL |-> url, SUPABASE_ANON_KEY |-> key]
                         /\ CONFIG' = [SUPABASE_URL |-> url, SUPABASE_ANON_KEY |-> key]
                         /\ InitializeAppBody
            ELSE /\ appState' = "needCredentials"
                 /\ UNCHANGED <<CONFIG, localStorage, supabaseClient, clickListeners,
                                loadCalls, loadVars>>
       ELSE /\ UNCHANGED <<CONFIG, localStorage>>
            /\ InitializeAppBody

----------------------------------------------------------------------------
\* Events after initialization

\* The click listener of attachEventListeners.  The handler is modelled for
\* every delivered click, scripted ones included.
ClickRefresh ==
    /\ clickListeners > 0
    /\ appState # "resuming"
    /\ loadCalls < MaxLoadCalls
    /\ LoadRoomDataCall(supabaseClient)
    /\ recentClickLoads' = recentClickLoads + 1
    /\ UNCHANGED <<CONFIG, supabaseClient, refreshInterval, localStorage, sdkLoaded,
                   appState, clickListeners, now, settledAs, uncaughtFaults,
                   reduceVars, cardVars>>

\* setupAutoRefresh, at the place initializeApp reserves for it (line 57).
SetupAutoRefresh ==
    /\ appState = "ready"
    /\ refreshInterval = "null"
    /\ refreshInterval' = "interval"
    /\ UNCHANGED <<CONFIG, supabaseClient, isLoading, localStorage, sdkLoaded,
                   appState, clickListeners, pendingFetches, fetchCalls, loadCalls,
                   now, roomGrid, refreshBtnDisabled, statusText, lastUpdateText,
                   loadingHidden, errorHidden, errorText, emptyHidden,
                   settledAs, uncaughtFaults, recentClickLoads, reduceVars, cardVars>>

\* The interval callback.
TimerFires ==
    /\ refreshInterval = "interval"
    /\ appState # "resuming"
    /\ loadCalls < MaxLoadCalls
    /\ LoadRoomDataCall(supabaseClient)
    /\ UNCHANGED <<CONFIG, supabaseClient, refreshInterval, localStorage, sdkLoaded,
                   appState, clickListeners, now, settledAs, uncaughtFaults,
                   recentClickLoads, reduceVars, cardVars>>

\* loadRoomData has returned to initializeApp, whose continuation after the
\* await runs before any other event.
AfterLoad == IF appState = "initialLoad" THEN "resuming" ELSE appState

\* The request settles with { data: rows, error: null }; fetchLatestRoomCounts
\* returns and loadRoomData runs to its end.
ResolveWith(rows) ==
    /\ pendingFetches > 0
    /\ pendingFetches' = pendingFetches - 1
    /\ settledAs' = IF Len(rows) = 0 THEN "empty" ELSE "rows"
    /\ LoadSucceeded(LatestPerRoom(rows))
    /\ appState' = AfterLoad
    /\ UNCHANGED <<CONFIG, supabaseClient, refreshInterval, localStorage, sdkLoaded,
                   clickListeners, fetchCalls, loadCalls, now, uncaughtFaults,
                   recentClickLoads, cardVars>>

FetchResolves ==
    /\ \E rows \in Responses : ResolveWith(rows)
    /\ UNCHANGED reduceVars

\* The request settles with an error object, rejects, or carries no data;
\* fetchLatestRoomCounts rethrows and loadRoomData runs catch and finally.
FetchFails ==
    /\ pendingFetches > 0
    /\ pendingFetches' = pendingFetches - 1
    /\ \E kind \in FailureKinds :
          /\ settledAs' = kind
          /\ IF Caught(kind)
             THEN LoadFailed(FailureMessage(kind)) /\ UNCHANGED uncaughtFaults
             ELSE LoadEscapes /\ uncaughtFaults' = uncaughtFaults + 1
    /\ appState' = AfterLoad
    /\ UNCHANGED <<CONFIG, supabaseClient, refreshInterval, localStorage, sdkLoaded,
                   clickListeners, fetchCalls, loadCalls, now, recentClickLoads,
                   reduceVars, cardVars>>

\* initializeApp resumes after await loadRoomData(): line 59.
InitializeAppResumes ==
    /\ appState = "resuming"
    /\ appState' = "ready"
    /\ statusText' = "Connected"
    /\ UNCHANGED <<CONFIG, supabaseClient, isLoading, refreshInterval, localStorage,
                   sdkLoaded, clickListeners, pendingFetches, fetchCalls, loadCalls,
                   now, roomGrid, refreshBtnDisabled, lastUpdateText, loadingHidden,
                   errorHidden, errorText, emptyHidden, settledAs, uncaughtFaults,
                   recentClickLoads, reduceVars, cardVars>>

\* Time passes: one refresh interval, longer than the debounce window.
Tick ==
    /\ now < MaxTicks * REFRESH_INTERVAL
    /\ now' = now + REFRESH_INTERVAL
    /\ recentClickLoads' = IF REFRESH_INTERVAL >= DEBOUNCE_MS THEN 0 ELSE recentClickLoads
    /\ UNCHANGED <<CONFIG, supabaseClient, isLoading, refreshInterval, localStorage,
                   sdkLoaded, appState, clickListeners, pendingFetches, fetchCalls,
                   loadCalls, roomGrid, refreshBtnDisabled, statusText,
                   lastUpdateText, loadingHidden, errorHidden, errorText,
                   emptyHidden, settledAs, uncaughtFaults, reduceVars, cardVars>>

----------------------------------------------------------------------------
\* Initial states

\* Variables of the other specifications, at rest.
ReduceIdle == store = <<>> /\ data = <<>> /\ rooms = <<>> /\ reducePc = "idle"
CardIdle ==
    /\ room = [room_id |-> "Lobby", timestamp |-> 0, people_count |-> 0]
    /\ cardNow = 0
    /\ card = [className |-> "", name |-> "", color |-> "", occupancy |-> "",
               status |-> "", badge |-> "", timestamp |-> ""]
    /\ cardPc = "idle"

\* The script has run (lines 10-34), DOMContentLoaded has not fired.
PageLoaded(stored, sdk, appAt) ==
    /\ localStorage = stored
    /\ CONFIG = stored
    /\ sdkLoaded = sdk
    /\ supabaseClient = "null"
    /\ isLoading = FALSE
    /\ refreshInterval = "null"
    /\ appState = appAt
    /\ clickListeners = 0
    /\ pendingFetches = 0
    /\ fetchCalls = 0
    /\ loadCalls = 0
    /\ now = 0
    /\ roomGrid = <<>>
    /\ refreshBtnDisabled = FALSE
    /\ statusText = "Connecting..."
    /\ lastUpdateText = ""
    /\ loadingHidden = TRUE
    /\ errorHidden = TRUE
    /\ errorText = ""
    /\ emptyHidden = TRUE
    /\ settledAs = "nothing"
    /\ uncaughtFaults = 0
    /\ recentClickLoads = 0

StoredCredentials ==
    {[SUPABASE_URL |-> "", SUPABASE_ANON_KEY |-> ""],
     [SUPABASE_URL |-> "https://abc.supabase.co", SUPABASE_ANON_KEY |-> ""],
     [SUPABASE_URL |-> "https://abc.supabase.co", SUPABASE_ANON_KEY |-> "anon-key"]}

Init ==
    /\ \E stored \in StoredCredentials, sdk \in BOOLEAN : PageLoaded(stored, sdk, "start")
    /\ ReduceIdle
    /\ CardIdle

Next ==
    \/ InitializeApp
    \/ ClickRefresh
    \/ SetupAutoRefresh
    \/ TimerFires
    \/ FetchResolves
    \/ FetchFails
    \/ InitializeAppResumes
    \/ Tick

Spec == Init /\ [][Next]_vars

----------------------------------------------------------------------------
\* SpecReduce: the grouping of fetchLatestRoomCounts on any row sequence

ReduceInputs == SeqsUpTo(Rows, MaxRows)

InitReduce ==
    /\ PageLoaded([SUPABASE_URL |-> "", SUPABASE_ANON_KEY |-> ""], TRUE, "off")
    /\ CardIdle
    /\ data \in ReduceInputs
    /\ store = <<>>
    /\ rooms = <<>>
    /\ reducePc = "fetched"

\* Lines 152-160 on the fetched data.
Reduce ==
    /\ reducePc = "fetched"
    /\ rooms' = LatestPerRoom(data)
    /\ reducePc' = "returned"
    /\ UNCHANGED <<pageVars, cardVars, store, data>>

NextReduce == Reduce

SpecReduce == InitReduce /\ [][NextReduce]_vars

----------------------------------------------------------------------------
\* SpecWindow: the query of fetchLatestRoomCounts on a store in which one
\* room is quiet while others keep reporting

WindowRoomIds == {"105", "401", "Lobby"}

\* Numbers of rows the busy rooms have written since the quiet room's last.
NewerCounts == {0, 1, 2, FETCH_LIMIT - 2, FETCH_LIMIT - 1, FETCH_LIMIT,
                FETCH_LIMIT + 1, FETCH_LIMIT + 2}

\* The quiet room's rows at instants 1..m, then n rows of the busy rooms in
\* turn at instants m+1..m+n.
QuietRows(quiet, m) ==
    [i \in 1..m |-> [room_id |-> quiet, timestamp |-> i, people_count |-> 3]]
BusyRows(busy, m, n) ==
    [i \in 1..n |-> [room_id      |-> busy[((i - 1) % Len(busy)) + 1],
                     timestamp    |-> m + i,
                     people_count |-> 3]]

\* The table in insertion order: by instant, or with the quiet room's rows
\* written last (a sensor that delivers late).
StoreOf(quiet, busy, m, n, late) ==
    IF late THEN BusyRows(busy, m, n) \o QuietRows(quiet, m)
    ELSE QuietRows(quiet, m) \o BusyRows(busy, m, n)

BusyOrders(quiet) ==
    {b \in SeqsUpTo(WindowRoomIds \ {quiet}, 2) :
        Len(b) >= 1 /\ (Len(b) = 2 => b[1] # b[2])}

InitWindow ==
    /\ PageLoaded([SUPABASE_URL |-> "", SUPABASE_ANON_KEY |-> ""], TRUE, "off")
    /\ CardIdle
    /\ \E quiet \in WindowRoomIds, m \in 1..2, n \in NewerCounts, late \in BOOLEAN :
          \E busy \in BusyOrders(quiet) : store = StoreOf(quiet, busy, m, n, late)
    /\ data = <<>>
    /\ rooms = <<>>
    /\ reducePc = "querying"

\* The request settles with the rows of the query.
QueryStore ==
    /\ reducePc = "querying"
    /\ data' = Query(store)
    /\ reducePc' = "fetched"
    /\ UNCHANGED <<pageVars, cardVars, store, rooms>>

NextWindow == QueryStore \/ Reduce

SpecWindow == InitWindow /\ [][NextWindow]_vars

----------------------------------------------------------------------------
\* SpecCycle: one refresh cycle, from the settled request to the page, on
\* rows the store may hold

CycleRoomIds == {"105", "Lobby", ""}
CycleRows == [room_id : CycleRoomIds, timestamp : {0, MaxTime, NaN}, people_count : {-1, 3}]

\* The room an earlier cycle has rendered.
EarlierRooms == <<[room_id |-> "401", timestamp |-> 0, people_count |-> 3]>>

\* initializeApp has run with stored credentials and a request is pending,
\* whose response is data: the initial request, or the request of a click
\* after the initial load has rendered EarlierRooms.
InitCycle ==
    /\ localStorage = [SUPABASE_URL |-> "https://abc.supabase.co", SUPABASE_ANON_KEY |-> "anon-key"]
    /\ CONFIG = localStorage
    /\ sdkLoaded = TRUE
    /\ supabaseClient = "client"
    /\ isLoading = TRUE
    /\ refreshInterval = "null"
    /\ clickListeners = 1
    /\ pendingFetches = 1
    /\ now = REFRESH_INTERVAL
    /\ refreshBtnDisabled = TRUE
    /\ loadingHidden = FALSE
    /\ errorHidden = TRUE
    /\ errorText = ""
    /\ emptyHidden = TRUE
    /\ uncaughtFaults = 0
    /\ \/ /\ appState = "initialLoad"
          /\ fetchCalls = 1
          /\ loadCalls = 1
          /\ recentClickLoads = 0
          /\ roomGrid = <<>>
          /\ statusText = "Connecting..."
          /\ lastUpdateText = ""
          /\ settledAs = "nothing"
       \/ /\ appState = "ready"
          /\ fetchCalls = 2
          /\ loadCalls = 2
          /\ recentClickLoads = 1
          /\ roomGrid = renderRoomCards(EarlierRooms, 0)
          /\ statusText = "Connected"
          /\ lastUpdateText = "Last updated: " \o LocaleTime(0)
          /\ settledAs = "rows"
    /\ CardIdle
    /\ data \in SeqsUpTo(CycleRows, MaxPageRows)
    /\ store = <<>>
    /\ rooms = <<>>
    /\ reducePc = "fetched"

CycleResolves ==
    /\ reducePc = "fetched"
    /\ ResolveWith(data)
    /\ rooms' = LatestPerRoom(data)
    /\ reducePc' = "returned"
    /\ UNCHANGED <<store, data>>

NextCycle == CycleResolves

SpecCycle == InitCycle /\ [][NextCycle]_vars

----------------------------------------------------------------------------
\* SpecCard: createRoomCard on any room record

AgeSamples == {-1500, -1, 0, 999, 1000, 45000, 59999, 60000, 300000, 300001,
               600000, 3599999, 3600000, 7200000}

\* Names to render, one of them with a character escapeHtml rewrites.
CardRoomIds == RoomIds \cup {"R&D"}

\* Timestamps a record may carry: instants, or a string that is no date.
CardTimestamps == (0..MaxTime) \cup {NaN}

CardInputs == [room_id : CardRoomIds, timestamp : CardTimestamps, people_count : -1..MaxCount]

\* Records of a table whose count column is person_count.
AliasInputs == [room_id : CardRoomIds, timestamp : CardTimestamps, person_count : 0..MaxCount]

InitCard ==
    /\ PageLoaded([SUPABASE_URL |-> "", SUPABASE_ANON_KEY |-> ""], TRUE, "off")
    /\ ReduceIdle
    /\ room \in CardInputs \cup AliasInputs
    /\ \E age \in AgeSamples :
          cardNow = (IF room.timestamp = NaN THEN 0 ELSE room.timestamp) + age
    /\ card = [className |-> "", name |-> "", color |-> "", occupancy |-> "",
               status |-> "", badge |-> "", timestamp |-> ""]
    /\ cardPc = "created"

CreateRoomCard ==
    /\ cardPc = "created"
    /\ card' = createRoomCard(room, cardNow)
    /\ cardPc' = "rendered"
    /\ UNCHANGED <<pageVars, reduceVars, room, cardNow>>

NextCard == CreateRoomCard

SpecCard == InitCard /\ [][NextCard]_vars

----------------------------------------------------------------------------
\* Properties of the refresh session (Spec)

\* C1: at most one fetch is in flight, whatever the interleaving of the
\* initial load, clicks and timer callbacks; calls of loadRoomData made
\* before the pending fetch settles start no second fetch.
C1_AtMostOneFetchInFlight == pendingFetches <= 1 /\ pendingFetches <= fetchCalls

\* Two or more calls of loadRoomData so far, the first fetch still pending,
\* exactly one fetch dispatched.
C1_Witness == loadCalls >= 2 /\ pendingFetches = 1 /\ fetchCalls = 1 /\ isLoading

\* C2: Idle -> Fetching -> {Succeeded, Failed} -> Idle.  Every step that
\* settles a fetch, resolved or failed, leaves isLoading false, and a call
\* of loadRoomData made after a completed cycle is accepted and starts a
\* new fetch.
C2_CycleReturnsToIdle ==
    [][ /\ (pendingFetches' < pendingFetches) => (~isLoading' /\ pendingFetches' = 0)
        /\ (loadCalls' = loadCalls + 1 /\ fetchCalls > 0 /\ pendingFetches = 0)
              => (isLoading' /\ pendingFetches' = 1 /\ fetchCalls' = fetchCalls + 1)
      ]_vars

\* A third cycle is in flight after one cycle failed and one succeeded.
C2_Witness ==
    /\ fetchCalls = 3
    /\ loadCalls = 3
    /\ pendingFetches = 1
    /\ isLoading
    /\ errorText \in {"Failed to load room data: " \o m : m \in FailureMessages}
    /\ lastUpdateText # ""

\* C3: a call of loadRoomData made while a fetch is in flight is dropped: it
\* changes nothing but the count of calls, the completion of the fetch
\* starts no fetch on its behalf, and a fetch starts only in a call made
\* while nothing is in flight.
C3_RequestsInFlightDropped ==
    [][ /\ (isLoading /\ loadCalls' = loadCalls + 1)
              => UNCHANGED <<CONFIG, supabaseClient, refreshInterval, localStorage,
                             sdkLoaded, appState, clickListeners, now, settledAs,
                             uncaughtFaults, loadVars>>
        /\ (pendingFetches' < pendingFetches)
              => (fetchCalls' = fetchCalls /\ pendingFetches' = 0)
        /\ (fetchCalls' > fetchCalls)
              => (loadCalls' = loadCalls + 1 /\ ~isLoading /\ pendingFetches = 0)
      ]_vars

\* Requests were dropped during the first fetch, the fetch has settled and
\* no other fetch was started.
C3_Witness == loadCalls >= 2 /\ fetchCalls = 1 /\ pendingFetches = 0 /\ ~isLoading

\* A step in which the request in flight settles.
Settles == pendingFetches' = pendingFetches - 1

\* C18: a failed fetch preserves the previous result.  When a cycle fails
\* while the grid holds the cards of an earlier cycle, the grid holds them
\* after the failure too.
C18_FailureKeepsRooms ==
    [][(Settles /\ settledAs' \in FailureKinds /\ roomGrid # <<>>)
          => roomGrid' = roomGrid]_vars

C21_ClicksDebounced == recentClickLoads <= 1

SettlesWell == Settles /\ settledAs' \in {"rows", "empty"}

\* C24: the last-update time is written only by a successful cycle, an
\* empty result included.  A failed cycle, a dropped request and every other
\* step leave the displayed time as it was.
C24_LastUpdateOnlyOnSuccess ==
    [][/\ SettlesWell => lastUpdateText' = "Last updated: " \o LocaleTime(now)
       /\ ~SettlesWell => lastUpdateText' = lastUpdateText]_vars

\* A cycle has failed one interval after a successful one, and the page
\* still shows the time of the successful one.
C24_Witness ==
    /\ settledAs \in FailureKinds
    /\ pendingFetches = 0
    /\ now = REFRESH_INTERVAL
    /\ lastUpdateText = "Last updated: " \o LocaleTime(0)
    /\ lastUpdateText # "Last updated: " \o LocaleTime(now)

\* initializeApp has finished and nothing has run since.
InitializeAppDone == appState = "ready" /\ loadCalls = 1

\* C26: after initializeApp the status tells the outcome of the initial
\* load: "Failed to load data" after a failure, "No rooms with data" after
\* zero rows, and never "Connected" after a failure.
C26_StatusTellsInitialOutcome ==
    InitializeAppDone =>
        /\ settledAs \in FailureKinds => statusText = "Failed to load data"
        /\ settledAs = "empty" => statusText = "No rooms with data"

Unconfigured ==
    \/ CONFIG.SUPABASE_URL = ""
    \/ CONFIG.SUPABASE_ANON_KEY = ""
    \/ supabaseClient = "null"

\* C28: no fetch before the app is configured.  While a credential or the
\* client is missing there is no refresh listener and loadRoomData has not
\* been called; every request is dispatched with a client; and the prompt
\* stores credentials, and initializeApp runs again, once, only for a
\* non-empty key and a URL that starts with https:// and contains
\* supabase.co.
C28_NoFetchBeforeConfigured ==
    [][/\ Unconfigured' => (clickListeners' = 0 /\ loadCalls' = 0 /\ fetchCalls' = 0)
       /\ fetchCalls' > fetchCalls => supabaseClient' # "null"
       /\ clickListeners' <= 1
       /\ localStorage' # localStorage
            => /\ localStorage'.SUPABASE_URL = "https://abc.supabase.co"
               /\ localStorage'.SUPABASE_ANON_KEY # ""
               /\ CONFIG' = localStorage'
               /\ appState = "start"
               /\ appState' \in {"initialLoad", "initFailed"}
       /\ (appState = "start" /\ appState' = "needCredentials")
            => UNCHANGED <<localStorage, CONFIG, supabaseClient>>]_vars

\* The prompt has turned down a URL and nothing was stored or started.
C28_Witness ==
    /\ appState = "needCredentials"
    /\ errorText = "Invalid Supabase URL format"
    /\ ~errorHidden
    /\ localStorage.SUPABASE_ANON_KEY = ""
    /\ clickListeners = 0
    /\ fetchCalls = 0

----------------------------------------------------------------------------
\* Properties of the grouping (SpecReduce)

Returned == reducePc = "returned"

\* Index of the first row of data carrying room id k.
FirstIndex(k) == CHOOSE j \in DOMAIN data :
                    data[j].room_id = k /\ \A h \in 1..(j - 1) : data[h].room_id # k

RoomsIn(rows) == {rows[j].room_id : j \in DOMAIN rows}

\* C4: latest wins.  For rows ordered by timestamp descending, the record
\* retained for a room has a timestamp greater than or equal to that of
\* every input row of the room.
C4_LatestWins ==
    (Returned /\ IsSortedDesc(data)) =>
        \A i \in DOMAIN rooms : \A j \in DOMAIN data :
            data[j].room_id = rooms[i].room_id => rooms[i].timestamp >= data[j].timestamp

\* A retained room has an older row in the descending input.
C4_Witness ==
    /\ Returned
    /\ IsSortedDesc(data)
    /\ \E i \in DOMAIN rooms : \E j \in DOMAIN data :
          data[j].room_id = rooms[i].room_id /\ data[j].timestamp < rooms[i].timestamp

\* C5: after reduction no two records share a room id, for any input.
C5_OneRecordPerRoom ==
    Returned => \A i, j \in DOMAIN rooms : i # j => rooms[i].room_id # rooms[j].room_id

\* Rows of two rooms, one of them repeated, reduced to two records.
C5_Witness ==
    /\ Returned
    /\ Len(data) = 3
    /\ Len(rooms) = 2
    /\ RoomsIn(data) = RoomsIn(rooms)

\* C6: first-seen retention.  For every room id occurring in the input,
\* whatever string it is, the result contains the first input row carrying
\* it, and no later row of that id.
C6_FirstSeenRetained ==
    Returned =>
        /\ \A k \in RoomsIn(data) : \E i \in DOMAIN rooms : rooms[i] = data[FirstIndex(k)]
        /\ Len(rooms) = Cardinality(RoomsIn(data))

\* C7: the result keeps the order in which rooms were first seen, digit-only
\* room ids included: the returned records are never reordered by room id.
C7_InsertionOrder ==
    Returned =>
        \A i, j \in DOMAIN rooms :
            i < j => FirstIndex(rooms[i].room_id) < FirstIndex(rooms[j].room_id)

\* C8: reducing a sequence that already has one record per room returns the
\* same records in the same order.
C8_IdempotentOnReduced ==
    (Returned /\ Cardinality(RoomsIn(data)) = Len(data)) => rooms = data

----------------------------------------------------------------------------
\* Properties of the fetch window (SpecWindow)

StoreRooms == RoomsIn(store)

\* The instant of the most recent row of room id in the store.
LatestOf(id) ==
    LET ts == {store[i].timestamp : i \in {j \in DOMAIN store : store[j].room_id = id}}
    IN  CHOOSE t \in ts : \A u \in ts : u <= t

\* How many rows of the store are newer than instant t.
CountNewer(t) == Cardinality({i \in DOMAIN store : store[i].timestamp > t})

\* How many rows of the store are newer than the most recent row of id.
NewerThanLatest(id) == CountNewer(LatestOf(id))

----------------------------------------------------------------------------
\* Properties of the cards (SpecCard)

Rendered == cardPc = "rendered"

\* now - observedAt of the rendered record
Age == cardNow - room.timestamp

Tiers == {"empty", "moderate", "full"}
TierRank(status) == CASE status = "empty" -> 0 [] status = "moderate" -> 1 [] OTHER -> 2

\* C9: the 3-tier classification with bound 5.  Count 0 is Empty, 1 to 5
\* inclusive is Moderate, 6 or more is Full; 5 is on the lower side.
C9_ThreeTiers ==
    (Rendered /\ HasPeopleCount(room)) =>
        /\ room.people_count = 0 => (card.status = "empty" /\ card.badge = "Empty")
        /\ room.people_count \in 1..5 => (card.status = "moderate" /\ card.badge = "Moderate")
        /\ room.people_count >= 6 => (card.status = "full" /\ card.badge = "Full")

\* A card of the boundary count.
C9_Witness == Rendered /\ HasPeopleCount(room) /\ room.people_count = 5 /\ card.status = "moderate"

\* C10: the classifier is total and monotone.  The card of every count
\* carries exactly one of the three tiers, no smaller count has a higher
\* tier and no larger count a lower one.
C10_TotalMonotone ==
    (Rendered /\ HasPeopleCount(room) /\ room.people_count >= 0) =>
        /\ card.status \in Tiers
        /\ \A a \in 0..MaxCount :
              /\ getOccupancyStatus(a).status \in Tiers
              /\ a < room.people_count
                    => TierRank(getOccupancyStatus(a).status) <= TierRank(card.status)
              /\ a > room.people_count
                    => TierRank(card.status) <= TierRank(getOccupancyStatus(a).status)

\* A card of the largest count, above two lower tiers.
C10_Witness == Rendered /\ HasPeopleCount(room) /\ room.people_count = MaxCount /\ card.status = "full"

\* C12: count-column aliases are equivalent.  A record carrying its count
\* in person_count gets the card of the same record carrying it in
\* people_count: same displayed count, same tier.
C12_CountAliasEquivalent ==
    (Rendered /\ ~HasPeopleCount(room)) =>
        card = createRoomCard([room_id      |-> room.room_id,
                               timestamp    |-> room.timestamp,
                               people_count |-> room.person_count], cardNow)

Label(text) == "Last updated: " \o text

\* C14: the relative label by age, for age >= 0.  Under 60 seconds the
\* whole seconds and "s ago"; from 60 seconds to under 60 minutes the whole
\* minutes and "m ago"; from 60 minutes on a wall-clock time and no "ago"
\* label.
C14_RelativeLabel ==
    (Rendered /\ room.timestamp # NaN /\ Age >= 0) =>
        /\ Age < 60 * 1000 => card.timestamp = Label(ToString(Age \div 1000) \o "s ago")
        /\ (Age >= 60 * 1000 /\ Age < 60 * 60000)
              => card.timestamp = Label(ToString(Age \div 60000) \o "m ago")
        /\ Age >= 60 * 60000
              => /\ card.timestamp = Label(LocaleTime(room.timestamp))
                 /\ card.timestamp \notin
                       {Label(ToString(n) \o unit) :
                           n \in {Age \div 1000, Age \div 60000}, unit \in {"s ago", "m ago"}}

\* A record one millisecond short of an hour old.
C14_Witness ==
    /\ Rendered
    /\ room.timestamp # NaN
    /\ Age = 60 * 60000 - 1
    /\ card.timestamp = Label("59m ago")

\* C15: a timestamp in the future of now is formatted as "0s ago"; no label
\* carries a negative duration.
C15_FutureIsZeroSeconds ==
    (Rendered /\ room.timestamp # NaN /\ Age < 0) => card.timestamp = Label("0s ago")

\* C16: an unparsable timestamp is formatted as "Unknown".
C16_MalformedIsUnknown ==
    (Rendered /\ room.timestamp = NaN) => card.timestamp = Label("Unknown")

\* The card shows its record as stale: a class beside room-card, or a
\* Stale badge.
ShownStale(c) == c.className # "room-card" \/ c.badge = "Stale"

\* C17: a rendered room is flagged stale exactly when now - observedAt
\* exceeds five minutes.
C17_StaleAfterFiveMinutes ==
    (Rendered /\ room.timestamp # NaN) => (ShownStale(card) <=> Age > 5 * 60000)

----------------------------------------------------------------------------
\* Properties of a refresh cycle on rows of any content (SpecCycle)

CycleDone == reducePc = "returned" /\ settledAs \in {"rows", "empty"}

\* C11: no rendered room has a negative count.  A fetched row with a
\* negative count is dropped: it is not in the result and no card shows it.
C11_NegativeCountDropped ==
    CycleDone =>
        /\ \A i \in DOMAIN rooms : rooms[i].people_count >= 0
        /\ \A i \in DOMAIN roomGrid : roomGrid[i].occupancy # "-1 people"

\* C13: row-level schema errors are recovered locally.  Rows with an empty
\* room id or an unparsable timestamp are dropped; the result and the cards
\* are those of the remaining rows, and the cycle ends as a success.
SchemaValid(r) == r.room_id # "" /\ r.timestamp # NaN

C13_SchemaErrorsDropped ==
    CycleDone =>
        LET valid == LatestPerRoom(SelectSeq(data, SchemaValid))
        IN  /\ rooms = valid
            /\ roomGrid = renderRoomCards(valid, now)
            /\ errorHidden
            /\ statusText # "Failed to load data"

====
